---- MODULE Spec2Model ----
(***************************************************************************)
(* Local package database of alpm-experimental (src/src/db/local.rs):      *)
(* the version-marker status check, the directory scan that fills the      *)
(* package cache, and the lazily loading lookups over that cache.          *)
(*                                                                         *)
(* Bytes and characters are their ASCII codes, strings are sequences of    *)
(* codes, so that atoi, the directory-name split and the string order of   *)
(* versions are computed as the code computes them.                        *)
(***************************************************************************)
EXTENDS Integers, Sequences, FiniteSets, TLC

VARIABLES
    rootKind,       \* what fs::metadata(&self.path) finds at the root path
    marker,         \* the file <root>/ALPM_DB_VERSION
    entries,        \* the other directory entries of the root
    package_cache,  \* LocalDatabaseInner.package_cache
    package_count,  \* LocalDatabaseInner.package_count
    nextRc,         \* identity of the next Rc<LocalPackage> allocation
    built,          \* history: package key -> records constructed for it
    crashed,        \* the process has panicked
    last            \* the call that was made last, and what it returned

vars == << rootKind, marker, entries, package_cache, package_count,
           nextRc, built, crashed, last >>

----------------------------------------------------------------------------
(* Bounds of the model *)

\* longest content of the marker file
MaxMarkerLen == 2
\* most entries the root directory holds besides the marker
MaxEntries == 3
\* most Rc<LocalPackage> allocations in one run
MaxAlloc == 4

----------------------------------------------------------------------------
(* Characters *)

NL     == 10
HYPHEN == 45
Digits == 48 .. 57

\* "ALPM_DB_VERSION"
LOCAL_DB_VERSION_FILE ==
    << 65, 76, 80, 77, 95, 68, 66, 95, 86, 69, 82, 83, 73, 79, 78 >>

LOCAL_DB_CURRENT_VERSION == 9

\* the bytes written by writeln!(version_file, "{}", LOCAL_DB_CURRENT_VERSION)
VersionFileBytes == << 48 + LOCAL_DB_CURRENT_VERSION, NL >>

\* bytes a marker file of the model is made of: '\n', '1', '9', 'x'
MarkerAlphabet == { NL, 49, 57, 120 }

SeqsUpTo(S, n) == UNION { [1 .. k -> S] : k \in 0 .. n }

MarkerContents == SeqsUpTo(MarkerAlphabet, MaxMarkerLen)

\* strings are ordered as Rust orders str: bytewise, a proper prefix first
RECURSIVE StrLess(_, _)
StrLess(s, t) ==
    IF t = << >> THEN FALSE
    ELSE IF s = << >> THEN TRUE
    ELSE IF Head(s) # Head(t) THEN Head(s) < Head(t)
    ELSE StrLess(Tail(s), Tail(t))

----------------------------------------------------------------------------
(* The file system under the root path *)

\* what is at the root path: nothing; a regular file; a directory; a
\* directory whose entries cannot be listed; something fs::metadata fails on
\* with an error other than NotFound
RootKinds == { "missing", "file", "dir", "unlistable", "denied" }

MarkerAbsent == [ st |-> "absent", bytes |-> << >> ]
\* the marker exists and reading it fails with an error other than NotFound
MarkerDenied == [ st |-> "denied", bytes |-> << >> ]
MarkerFile(b) == [ st |-> "file", bytes |-> b ]

Markers == { MarkerAbsent, MarkerDenied } \cup { MarkerFile(b) : b \in MarkerContents }

\* "a-2-1", "a-10-1", "b-1-1": package directories
DirA2  == << 97, 45, 50, 45, 49 >>
DirA10 == << 97, 45, 49, 48, 45, 49 >>
DirB1  == << 98, 45, 49, 45, 49 >>
\* "ab": a directory whose name is not a package directory name
DirJunk == << 97, 98 >>
\* "x": a file that is not the marker
StrayFile == << 120 >>

EntryUniverse ==
    { [ name |-> n, dir |-> TRUE ] : n \in { DirA2, DirA10, DirB1, DirJunk } }
        \cup { [ name |-> StrayFile, dir |-> FALSE ] }

\* what fs::read_dir(&self.path) yields: the marker is an entry like the others
DirListing(m, es) ==
    es \cup ( IF m.st = "absent" THEN { }
              ELSE { [ name |-> LOCAL_DB_VERSION_FILE, dir |-> FALSE ] } )

----------------------------------------------------------------------------
(* atoi::<u64>: the decimal number the leading digits spell, None when the *)
(* text does not start with a digit                                        *)

None == [ some |-> FALSE, val |-> 0 ]
Some(v) == [ some |-> TRUE, val |-> v ]

RECURSIVE from_radix_10(_, _, _)
\* << number, digits used >> of the longest digit prefix of text
from_radix_10(text, number, used) ==
    IF text # << >> /\ Head(text) \in Digits
    THEN from_radix_10(Tail(text), number * 10 + (Head(text) - 48), used + 1)
    ELSE << number, used >>

atoi(text) ==
    LET r == from_radix_10(text, 0, 0)
    IN  IF r[2] = 0 THEN None ELSE Some(r[1])

----------------------------------------------------------------------------
(* status *)

\* md.is_dir() of the metadata of the root
IsDir(rk) == rk \in { "dir", "unlistable" }

\* fs::File::create(&self.path) followed by the writeln!: self.path is the
\* database root itself, not the marker's path. On a directory the open
\* fails (EISDIR); on a missing or regular path it would leave a regular file
\* there. The marker m is not written in either case.
create_version_file(rk, m) ==
    IF IsDir(rk) \/ rk = "denied"
    THEN [ ok |-> FALSE, root |-> rk, marker |-> m ]
    ELSE [ ok |-> TRUE, root |-> "file", marker |-> m ]

StatusOk(v, rk, m) ==
    [ ret |-> "Ok", val |-> v, err |-> "none", root |-> rk, marker |-> m ]
StatusErr(rk, m) ==
    [ ret |-> "Err", val |-> "none", err |-> "Io", root |-> rk, marker |-> m ]

\* status_valid with the arms of d.next() exchanged: a directory that holds
\* entries passes, an empty one fails
status_valid_arms_exchanged(rk, m, es) ==
    IF m.st = "file"
    THEN LET version == atoi(m.bytes)
         IN  [ valid |-> version.some /\ version.val = LOCAL_DB_CURRENT_VERSION,
               root |-> rk, marker |-> m ]
    ELSE IF m.st = "absent"
    THEN [ valid |-> rk # "unlistable" /\ DirListing(m, es) # { },
           root |-> rk, marker |-> m ]
    ELSE [ valid |-> FALSE, root |-> rk, marker |-> m ]

\* status_valid that accepts the versions above the current one
status_valid_newer(rk, m, es) ==
    IF m.st = "file"
    THEN LET version == atoi(m.bytes)
         IN  [ valid |-> version.some /\ version.val > LOCAL_DB_CURRENT_VERSION,
               root |-> rk, marker |-> m ]
    ELSE [ valid |-> FALSE, root |-> rk, marker |-> m ]

\* the match on fs::read(self.path.join(LOCAL_DB_VERSION_FILE)): valid, and
\* the root and the marker as the match leaves them
status_valid(rk, m, es) ==
    IF m.st = "file"
    THEN LET version == atoi(m.bytes)
         IN  [ valid |-> version.some /\ version.val = LOCAL_DB_CURRENT_VERSION,
               root |-> rk, marker |-> m ]
    ELSE IF m.st = "absent"
    THEN \* fs::read_dir(&self.path), then d.next()
         IF rk = "unlistable"
         THEN [ valid |-> FALSE, root |-> rk, marker |-> m ]
         ELSE IF DirListing(m, es) # { }
         THEN [ valid |-> FALSE, root |-> rk, marker |-> m ]
         ELSE LET c == create_version_file(rk, m)
              IN  [ valid |-> c.ok, root |-> c.root, marker |-> c.marker ]
    ELSE [ valid |-> FALSE, root |-> rk, marker |-> m ]

\* status that takes every failure of fs::metadata for NotFound
status_any_error_missing(rk, m, es) ==
    IF rk \in { "missing", "denied" } THEN StatusOk("Missing", rk, m)
    ELSE IF ~IsDir(rk) THEN StatusOk("Invalid", rk, m)
    ELSE LET v == status_valid(rk, m, es)
         IN  StatusOk(IF v.valid THEN "Valid" ELSE "Invalid", v.root, v.marker)

\* status that hands on the errors of fs::read and fs::read_dir with ?
status_errors_propagated(rk, m, es) ==
    IF rk = "missing" THEN StatusOk("Missing", rk, m)
    ELSE IF rk = "denied" THEN StatusErr(rk, m)
    ELSE IF ~IsDir(rk) THEN StatusOk("Invalid", rk, m)
    ELSE IF m.st = "denied" \/ (m.st = "absent" /\ rk = "unlistable")
    THEN StatusErr(rk, m)
    ELSE LET v == status_valid(rk, m, es)
         IN  StatusOk(IF v.valid THEN "Valid" ELSE "Invalid", v.root, v.marker)

status(rk, m, es) ==
    IF rk = "missing" THEN StatusOk("Missing", rk, m)
    ELSE IF rk = "denied" THEN StatusErr(rk, m)
    ELSE IF ~IsDir(rk) THEN StatusOk("Invalid", rk, m)
    ELSE LET v == status_valid(rk, m, es)
         IN  StatusOk(IF v.valid THEN "Valid" ELSE "Invalid", v.root, v.marker)

----------------------------------------------------------------------------
(* Package keys and lazily loaded packages *)

PackageKey(name, version) == [ name |-> name, version |-> version ]

HyphenIdx(s) == { i \in 1 .. Len(s) : s[i] = HYPHEN }

\* the second hyphen from the right separates the name from version-release
split_package_dirname(s) ==
    LET hs == HyphenIdx(s)
    IN  IF Cardinality(hs) < 2
        THEN [ some |-> FALSE, name |-> << >>, version |-> << >> ]
        ELSE LET lst == CHOOSE i \in hs : \A j \in hs : j <= i
                 idx == CHOOSE i \in hs \ { lst } : \A j \in hs \ { lst } : j <= i
             IN  [ some |-> TRUE,
                   name |-> SubSeq(s, 1, idx - 1),
                   version |-> SubSeq(s, idx + 1, Len(s)) ]

NoPkg == [ rc |-> 0, path |-> << >>, name |-> << >>, version |-> << >> ]

\* MaybePackage::Unloaded { path, name, version }
MaybePackage_new(path, name, version) ==
    [ tag |-> "Unloaded", path |-> path, name |-> name, version |-> version,
      pkg |-> NoPkg ]

\* MaybePackage::Loaded(pkg)
Loaded(pkg) ==
    [ tag |-> "Loaded", path |-> << >>, name |-> << >>, version |-> << >>,
      pkg |-> pkg ]

\* LocalPackage::from_local: the record of the package at path, or an error
\* when the package's files cannot be read (readable is that outcome)
from_local(path, name, version, readable) ==
    IF readable
    THEN [ ok |-> TRUE, rec |-> [ path |-> path, name |-> name, version |-> version ] ]
    ELSE [ ok |-> FALSE, rec |-> [ path |-> << >>, name |-> << >>, version |-> << >> ] ]

\* Rc::new(rec): rc is the identity of the allocation
RcNew(rec, rc) ==
    [ rc |-> rc, path |-> rec.path, name |-> rec.name, version |-> rec.version ]

\* load that moves the record out of a Loaded slot and leaves the slot
\* Unloaded behind it
load_take(slot, readable, rc) ==
    IF slot.tag = "Unloaded"
    THEN LET r == from_local(slot.path, slot.name, slot.version, readable)
         IN  IF r.ok
             THEN LET pkg == RcNew(r.rec, rc)
                  IN  [ slot |-> Loaded(pkg), ret |-> "Ok", pkg |-> pkg,
                        nparse |-> 1, nbuilt |-> 1, rc |-> rc + 1 ]
             ELSE [ slot |-> slot, ret |-> "Err", pkg |-> NoPkg,
                    nparse |-> 1, nbuilt |-> 0, rc |-> rc ]
    ELSE [ slot |-> MaybePackage_new(slot.pkg.path, slot.pkg.name, slot.pkg.version),
           ret |-> "Ok", pkg |-> slot.pkg,
           nparse |-> 0, nbuilt |-> 0, rc |-> rc ]

\* load that hands out a copy of the record of a Loaded slot, a new
\* allocation, in the place of a clone of the Rc
load_clones_record(slot, readable, rc) ==
    IF slot.tag = "Unloaded"
    THEN LET r == from_local(slot.path, slot.name, slot.version, readable)
         IN  IF r.ok
             THEN LET pkg == RcNew(r.rec, rc)
                  IN  [ slot |-> Loaded(pkg), ret |-> "Ok", pkg |-> pkg,
                        nparse |-> 1, nbuilt |-> 1, rc |-> rc + 1 ]
             ELSE [ slot |-> slot, ret |-> "Err", pkg |-> NoPkg,
                    nparse |-> 1, nbuilt |-> 0, rc |-> rc ]
    ELSE [ slot |-> slot, ret |-> "Ok", pkg |-> [ slot.pkg EXCEPT !.rc = rc ],
           nparse |-> 0, nbuilt |-> 0, rc |-> rc + 1 ]

\* load that moves path, name and version out of the slot before it parses,
\* and leaves them empty when the parse fails
load_moves_fields(slot, readable, rc) ==
    IF slot.tag = "Unloaded"
    THEN LET r == from_local(slot.path, slot.name, slot.version, readable)
         IN  IF r.ok
             THEN LET pkg == RcNew(r.rec, rc)
                  IN  [ slot |-> Loaded(pkg), ret |-> "Ok", pkg |-> pkg,
                        nparse |-> 1, nbuilt |-> 1, rc |-> rc + 1 ]
             ELSE [ slot |-> MaybePackage_new(<< >>, << >>, << >>),
                    ret |-> "Err", pkg |-> NoPkg,
                    nparse |-> 1, nbuilt |-> 0, rc |-> rc ]
    ELSE [ slot |-> slot, ret |-> "Ok", pkg |-> slot.pkg,
           nparse |-> 0, nbuilt |-> 0, rc |-> rc ]

\* load that parses again when the slot is Loaded, and hands out the new Rc
load_reparse(slot, readable, rc) ==
    LET src == IF slot.tag = "Unloaded" THEN slot ELSE slot.pkg
        r == from_local(src.path, src.name, src.version, readable)
    IN  IF r.ok
        THEN LET pkg == RcNew(r.rec, rc)
             IN  [ slot |-> Loaded(pkg), ret |-> "Ok", pkg |-> pkg,
                   nparse |-> 1, nbuilt |-> 1, rc |-> rc + 1 ]
        ELSE [ slot |-> slot, ret |-> "Err", pkg |-> NoPkg,
               nparse |-> 1, nbuilt |-> 0, rc |-> rc ]

\* MaybePackage::load on slot; rc is the next free allocation
load(slot, readable, rc) ==
    IF slot.tag = "Unloaded"
    THEN LET r == from_local(slot.path, slot.name, slot.version, readable)
         IN  IF r.ok
             THEN LET pkg == RcNew(r.rec, rc)
                  IN  [ slot |-> Loaded(pkg), ret |-> "Ok", pkg |-> pkg,
                        nparse |-> 1, nbuilt |-> 1, rc |-> rc + 1 ]
             ELSE [ slot |-> slot, ret |-> "Err", pkg |-> NoPkg,
                    nparse |-> 1, nbuilt |-> 0, rc |-> rc ]
    ELSE [ slot |-> slot, ret |-> "Ok", pkg |-> slot.pkg,
           nparse |-> 0, nbuilt |-> 0, rc |-> rc ]

----------------------------------------------------------------------------
(* Lookups over the package cache. A cache is a function from its keys to  *)
(* slots; order is the sequence in which the HashMap iterates its keys;    *)
(* unreadable is the set of keys whose package files cannot be parsed.     *)

LookupErr(cache, name, rc) ==
    [ cache |-> cache, ret |-> "Err", err |-> "InvalidLocalPackage",
      errName |-> name, pkg |-> NoPkg, nparse |-> 0, made |-> << >>, rc |-> rc ]

\* LoadKey that drops the slot from the cache when its load fails
LoadKey_evict(cache, key, unreadable, rc) ==
    LET l == load(cache[key], key \notin unreadable, rc)
    IN  [ cache |-> IF l.ret = "Ok" THEN [ cache EXCEPT ![key] = l.slot ]
                    ELSE [ k \in DOMAIN cache \ { key } |-> cache[k] ],
          ret |-> l.ret,
          err |-> IF l.ret = "Ok" THEN "none" ELSE "Package",
          errName |-> << >>,
          pkg |-> l.pkg, nparse |-> l.nparse,
          made |-> IF l.nbuilt = 1 THEN << key >> ELSE << >>,
          rc |-> l.rc ]

\* the result of a lookup that reached load on the slot of key
LoadKey(cache, key, unreadable, rc) ==
    LET l == load(cache[key], key \notin unreadable, rc)
    IN  [ cache |-> [ cache EXCEPT ![key] = l.slot ],
          ret |-> l.ret,
          err |-> IF l.ret = "Ok" THEN "none" ELSE "Package",
          errName |-> << >>,
          pkg |-> l.pkg, nparse |-> l.nparse,
          made |-> IF l.nbuilt = 1 THEN << key >> ELSE << >>,
          rc |-> l.rc ]

\* package that, when the key is absent, falls back to a slot of that name
package_by_name(cache, name, version, unreadable, rc) ==
    LET key == PackageKey(name, version)
        named == { k \in DOMAIN cache : k.name = name }
    IN  IF key \in DOMAIN cache THEN LoadKey(cache, key, unreadable, rc)
        ELSE IF named = { } THEN LookupErr(cache, name, rc)
        ELSE LoadKey(cache, CHOOSE k \in named : TRUE, unreadable, rc)

package(cache, name, version, unreadable, rc) ==
    LET key == PackageKey(name, version)
    IN  IF key \notin DOMAIN cache
        THEN LookupErr(cache, name, rc)
        ELSE LoadKey(cache, key, unreadable, rc)

NoKey == PackageKey(<< >>, << >>)

RECURSIVE max_by_version(_, _, _)
\* Iterator::max_by_key over the keys of order named name: a later element
\* replaces the best one unless its version is smaller
max_by_version(order, name, best) ==
    IF order = << >> THEN best
    ELSE LET key == Head(order)
             take == /\ key.name = name
                     /\ \/ best = NoKey
                        \/ ~StrLess(key.version, best.version)
         IN  max_by_version(Tail(order), name, IF take THEN key ELSE best)

RECURSIVE min_by_version(_, _, _)
min_by_version(order, name, best) ==
    IF order = << >> THEN best
    ELSE LET key == Head(order)
             take == /\ key.name = name
                     /\ \/ best = NoKey
                        \/ StrLess(key.version, best.version)
         IN  min_by_version(Tail(order), name, IF take THEN key ELSE best)

\* package_latest with min_by_key in the place of max_by_key
package_latest_min(cache, name, order, unreadable, rc) ==
    LET key == min_by_version(order, name, NoKey)
    IN  IF key = NoKey
        THEN LookupErr(cache, name, rc)
        ELSE LoadKey(cache, key, unreadable, rc)

\* package_latest that also loads the slot the scan started from (the
\* smallest version of the name) before it loads the greatest
package_latest_loads_scanned(cache, name, order, unreadable, rc) ==
    LET key == max_by_version(order, name, NoKey)
        low == min_by_version(order, name, NoKey)
    IN  IF key = NoKey
        THEN LookupErr(cache, name, rc)
        ELSE LET first == LoadKey(cache, low, unreadable, rc)
                 r == LoadKey(first.cache, key, unreadable, first.rc)
             IN  [ r EXCEPT !.made = first.made \o r.made,
                            !.nparse = first.nparse + r.nparse ]

package_latest(cache, name, order, unreadable, rc) ==
    LET key == max_by_version(order, name, NoKey)
    IN  IF key = NoKey
        THEN LookupErr(cache, name, rc)
        ELSE LoadKey(cache, key, unreadable, rc)

RECURSIVE packages_loop(_, _, _, _)
\* the for loop of packages: acc is the state of the loop before the slot of
\* Head(order) is loaded; failAt is the invocation the visitor f fails on
\* (0: it never fails)
packages_loop(order, unreadable, failAt, acc) ==
    IF order = << >> THEN acc
    ELSE LET key == Head(order)
             l == load(acc.cache[key], key \notin unreadable, acc.rc)
             loaded == [ acc EXCEPT
                           !.cache = [ acc.cache EXCEPT ![key] = l.slot ],
                           !.nparse = acc.nparse + l.nparse,
                           !.loads = acc.loads + 1,
                           !.made = IF l.nbuilt = 1 THEN Append(acc.made, key)
                                    ELSE acc.made,
                           !.rc = l.rc ]
         IN  IF l.ret = "Err"
             THEN [ loaded EXCEPT !.ret = "Err", !.err = "Package" ]
             ELSE LET called == [ loaded EXCEPT
                                    !.visited = Append(loaded.visited, l.pkg) ]
                  IN  IF Len(called.visited) = failAt
                      THEN [ called EXCEPT !.ret = "Err", !.err = "Visitor" ]
                      ELSE packages_loop(Tail(order), unreadable, failAt, called)

\* packages that notes the failure of the visitor and goes on with the
\* remaining slots before it returns that failure
packages_keeps_going(cache, order, unreadable, failAt, rc) ==
    LET r == packages_loop(order, unreadable, 0,
                           [ cache |-> cache, ret |-> "Ok", err |-> "none",
                             nparse |-> 0, loads |-> 0, made |-> << >>,
                             visited |-> << >>, rc |-> rc ])
    IN  IF r.ret = "Ok" /\ failAt > 0 /\ Len(r.visited) >= failAt
        THEN [ r EXCEPT !.ret = "Err", !.err = "Visitor" ]
        ELSE r

packages(cache, order, unreadable, failAt, rc) ==
    packages_loop(order, unreadable, failAt,
                  [ cache |-> cache, ret |-> "Ok", err |-> "none",
                    nparse |-> 0, loads |-> 0, made |-> << >>,
                    visited |-> << >>, rc |-> rc ])

----------------------------------------------------------------------------
(* populate_package_cache *)

RECURSIVE populate_loop(_, _)
\* the for loop over the entries of fs::read_dir, in the order it lists them
populate_loop(listing, acc) ==
    IF listing = << >> THEN acc
    ELSE LET entry == Head(listing)
         IN  IF ~entry.dir
             THEN populate_loop(Tail(listing), acc)
             ELSE LET sp == split_package_dirname(entry.name)
                  IN  IF ~sp.some
                      THEN [ acc EXCEPT !.ret = "Err",
                                        !.err = "InvalidLocalPackage",
                                        !.errName = entry.name ]
                      ELSE LET key == PackageKey(sp.name, sp.version)
                               slot == MaybePackage_new(entry.name, sp.name, sp.version)
                               dup == key \in DOMAIN acc.cache
                               ins == [ k \in DOMAIN acc.cache \cup { key } |->
                                          IF k = key THEN slot ELSE acc.cache[k] ]
                           IN  IF dup
                               THEN [ acc EXCEPT !.cache = ins, !.ret = "Panic",
                                                 !.err = "Panic" ]
                               ELSE populate_loop(Tail(listing),
                                                  [ acc EXCEPT !.cache = ins ])

\* populate_package_cache without the test of entry.metadata()?.is_dir():
\* every entry is taken for a package directory
populate_all_entries(cache, rk, listing) ==
    IF rk # "dir"
    THEN [ cache |-> cache, ret |-> "Err", err |-> "Io", errName |-> << >> ]
    ELSE populate_loop([ i \in DOMAIN listing |-> [ listing[i] EXCEPT !.dir = TRUE ] ],
                       [ cache |-> cache, ret |-> "Ok", err |-> "none",
                         errName |-> << >> ])

\* populate_package_cache that returns an error for a duplicate key in the
\* place of the panic
populate_dup_is_error(cache, rk, listing) ==
    IF rk # "dir"
    THEN [ cache |-> cache, ret |-> "Err", err |-> "Io", errName |-> << >> ]
    ELSE LET r == populate_loop(listing, [ cache |-> cache, ret |-> "Ok",
                                           err |-> "none", errName |-> << >> ])
         IN  IF r.ret = "Panic"
             THEN [ r EXCEPT !.ret = "Err", !.err = "InvalidLocalPackage" ]
             ELSE r

populate_package_cache(cache, rk, listing) ==
    IF rk # "dir"
    THEN \* fs::read_dir(&self.path)?
         [ cache |-> cache, ret |-> "Err", err |-> "Io", errName |-> << >> ]
    ELSE populate_loop(listing, [ cache |-> cache, ret |-> "Ok", err |-> "none",
                                  errName |-> << >> ])

----------------------------------------------------------------------------
(* State machine *)

\* the orders in which the elements of S can be listed
Orders(S) ==
    { f \in [ 1 .. Cardinality(S) -> S ] : \A i, j \in DOMAIN f : f[i] = f[j] => i = j }

\* the keys the package directories of the model split to
PossibleKeys ==
    { PackageKey(split_package_dirname(e.name).name, split_package_dirname(e.name).version) :
        e \in { x \in EntryUniverse : x.dir /\ split_package_dirname(x.name).some } }

\* names and versions a caller asks for: "a", "b", "c"; "2-1", "10-1", "1-1"
Names == { << 97 >>, << 98 >>, << 99 >> }
Versions == { << 50, 45, 49 >>, << 49, 48, 45, 49 >>, << 49, 45, 49 >> }

\* the packages whose files cannot be parsed when a call is made: the call
\* stops at the first of them it meets, so one at a time is every case
Unreadables(cache) == { { } } \cup { { k } : k \in DOMAIN cache }

EmptyCache == [ k \in { } |-> MaybePackage_new(<< >>, << >>, << >>) ]

\* a call of op as the caller sees it: its arguments and what it returned;
\* twice says that the call before it was the same call and returned Ok,
\* before is what that call returned
Call(op) ==
    [ op |-> op, name |-> << >>, version |-> << >>, ret |-> "Ok", val |-> "none",
      err |-> "none", errName |-> << >>, pkg |-> NoPkg, nparse |-> 0, loads |-> 0,
      visited |-> << >>, failAt |-> 0, twice |-> FALSE,
      before |-> [ val |-> "none", pkg |-> NoPkg ] ]

After(call) ==
    IF last.op = call.op /\ last.name = call.name /\ last.version = call.version
       /\ last.ret = "Ok"
    THEN [ call EXCEPT !.twice = TRUE,
                       !.before = [ val |-> last.val, pkg |-> last.pkg ] ]
    ELSE call

InitEngine ==
    /\ package_cache = EmptyCache
    /\ package_count = 0
    /\ nextRc = 1
    /\ built = [ k \in PossibleKeys |-> 0 ]
    /\ crashed = FALSE
    /\ last = Call("new")

EntrySets == { es \in SUBSET EntryUniverse : Cardinality(es) <= MaxEntries }

\* LocalDatabaseInner::new over a database directory with a current marker,
\* or over a path where there is none yet
Init ==
    /\ rootKind \in { "dir", "missing" }
    /\ marker = IF rootKind = "dir" THEN MarkerFile(VersionFileBytes) ELSE MarkerAbsent
    /\ entries \in EntrySets
    /\ rootKind # "dir" => entries = { }
    /\ InitEngine

\* LocalDatabaseInner::new over any root path, marker and directory content
InitStatus ==
    /\ rootKind \in RootKinds
    /\ marker \in Markers
    /\ entries \in EntrySets
    /\ ~IsDir(rootKind) => marker = MarkerAbsent /\ entries = { }
    /\ InitEngine

Count(seq, x) == Cardinality({ i \in DOMAIN seq : seq[i] = x })

Built(made) == [ k \in PossibleKeys |-> built[k] + Count(made, k) ]

Status ==
    /\ ~crashed
    /\ LET r == status(rootKind, marker, entries)
       IN  /\ rootKind' = r.root
           /\ marker' = r.marker
           /\ last' = After([ Call("status") EXCEPT !.ret = r.ret, !.val = r.val,
                                                    !.err = r.err ])
    /\ UNCHANGED << entries, package_cache, package_count, nextRc, built,
                    crashed >>

Package ==
    /\ ~crashed
    /\ \E name \in Names, version \in Versions,
          unreadable \in Unreadables(package_cache) :
         LET r == package(package_cache, name, version, unreadable, nextRc)
         IN  /\ r.rc <= MaxAlloc + 1
             /\ package_cache' = r.cache
             /\ nextRc' = r.rc
             /\ built' = Built(r.made)
             /\ last' = After([ Call("package") EXCEPT
                                  !.name = name, !.version = version,
                                  !.ret = r.ret, !.err = r.err,
                                  !.errName = r.errName, !.pkg = r.pkg,
                                  !.nparse = r.nparse ])
    /\ UNCHANGED << rootKind, marker, entries, package_count, crashed >>

PackageLatest ==
    /\ ~crashed
    /\ \E name \in Names, order \in Orders(DOMAIN package_cache),
          unreadable \in Unreadables(package_cache) :
         LET r == package_latest(package_cache, name, order, unreadable, nextRc)
         IN  /\ r.rc <= MaxAlloc + 1
             /\ package_cache' = r.cache
             /\ nextRc' = r.rc
             /\ built' = Built(r.made)
             /\ last' = After([ Call("package_latest") EXCEPT
                                  !.name = name, !.ret = r.ret, !.err = r.err,
                                  !.errName = r.errName, !.pkg = r.pkg,
                                  !.nparse = r.nparse ])
    /\ UNCHANGED << rootKind, marker, entries, package_count, crashed >>

Packages ==
    /\ ~crashed
    /\ \E order \in Orders(DOMAIN package_cache),
          unreadable \in Unreadables(package_cache),
          failAt \in 0 .. Cardinality(DOMAIN package_cache) :
         LET r == packages(package_cache, order, unreadable, failAt, nextRc)
         IN  /\ r.rc <= MaxAlloc + 1
             /\ package_cache' = r.cache
             /\ nextRc' = r.rc
             /\ built' = Built(r.made)
             /\ last' = After([ Call("packages") EXCEPT
                                  !.ret = r.ret, !.err = r.err,
                                  !.nparse = r.nparse, !.loads = r.loads,
                                  !.visited = r.visited, !.failAt = failAt ])
    /\ UNCHANGED << rootKind, marker, entries, package_count, crashed >>

Populate ==
    /\ ~crashed
    /\ \E listing \in Orders(DirListing(marker, entries)) :
         LET r == populate_package_cache(package_cache, rootKind, listing)
         IN  /\ package_cache' = r.cache
             /\ crashed' = (r.ret = "Panic")
             /\ last' = After([ Call("populate_package_cache") EXCEPT
                                  !.ret = r.ret, !.err = r.err,
                                  !.errName = r.errName ])
    /\ UNCHANGED << rootKind, marker, entries, package_count, nextRc, built >>

Next ==
    \/ Status
    \/ Package
    \/ PackageLatest
    \/ Packages
    \/ Populate

Spec == Init /\ [][Next]_vars

\* status() called again and again on any file system
NextStatus == Status

SpecStatus == InitStatus /\ [][NextStatus]_vars

----------------------------------------------------------------------------
(* The directory changing under the engine: packages are installed and     *)
(* removed on disk by other means while the engine lives                   *)

\* the package directories that come and go: "a-2-1" and "b-1-1"
DiskPackages == { [ name |-> n, dir |-> TRUE ] : n \in { DirA2, DirB1 } }

Install ==
    /\ ~crashed
    /\ rootKind = "dir"
    /\ Cardinality(entries) < MaxEntries
    /\ \E e \in DiskPackages \ entries : entries' = entries \cup { e }
    /\ UNCHANGED << rootKind, marker, package_cache, package_count, nextRc,
                    built, crashed, last >>

Remove ==
    /\ ~crashed
    /\ rootKind = "dir"
    /\ \E e \in DiskPackages \cap entries : entries' = entries \ { e }
    /\ UNCHANGED << rootKind, marker, package_cache, package_count, nextRc,
                    built, crashed, last >>

InitDisk ==
    /\ rootKind = "dir"
    /\ marker = MarkerFile(VersionFileBytes)
    /\ entries \in { es \in SUBSET DiskPackages : Cardinality(es) <= MaxEntries }
    /\ InitEngine

NextDisk ==
    \/ Status
    \/ Package
    \/ PackageLatest
    \/ Packages
    \/ Populate
    \/ Install
    \/ Remove

SpecDisk == InitDisk /\ [][NextDisk]_vars

----------------------------------------------------------------------------
(* Properties of status *)

CurrentMarker == MarkerFile(VersionFileBytes)

\* C1: on an empty root directory without a marker the first status() returns
\* Valid and leaves a marker file holding the supported version 9 (and a second
\* status() then returns Valid again over the same marker).
C1_EmptyRootGetsMarker ==
    [][ ( /\ last'.op = "status"
          /\ rootKind = "dir" /\ marker = MarkerAbsent /\ entries = { } )
        => ( /\ last'.ret = "Ok" /\ last'.val = "Valid"
             /\ marker' = CurrentMarker ) ]_vars

\* C5: on a root directory that holds entries and no marker, status() returns
\* Invalid and changes nothing in the directory: no marker appears, the
\* entries and the root stay as they were.
C5_NonEmptyWithoutMarkerInvalid ==
    [][ ( /\ last'.op = "status"
          /\ rootKind = "dir" /\ marker = MarkerAbsent /\ entries # { } )
        => ( /\ last'.ret = "Ok" /\ last'.val = "Invalid"
             /\ marker' = MarkerAbsent /\ entries' = entries
             /\ rootKind' = rootKind ) ]_vars

C5_Witness ==
    /\ last.op = "status" /\ last.ret = "Ok" /\ last.val = "Invalid"
    /\ rootKind = "dir" /\ marker = MarkerAbsent /\ entries # { }

\* the content is one decimal integer, with or without the newline that ends
\* the file
IsInteger(bytes) ==
    LET digits == IF bytes # << >> /\ bytes[Len(bytes)] = NL
                  THEN SubSeq(bytes, 1, Len(bytes) - 1) ELSE bytes
    IN  /\ digits # << >>
        /\ \A i \in DOMAIN digits : digits[i] \in Digits

\* C6: status() returns Valid over a marker file only when the content of the
\* file is an integer and that integer is the supported version 9; digits
\* followed by other bytes, an empty file and other integers give Invalid.
C6_ValidOnlyForInteger9 ==
    ( last.op = "status" /\ last.val = "Valid" /\ marker.st = "file" )
        => ( /\ IsInteger(marker.bytes)
             /\ atoi(marker.bytes) = Some(LOCAL_DB_CURRENT_VERSION) )

\* C8: status() answers Missing when nothing is at the root path, Invalid when
\* the root is not a directory, and fails with the I/O error when the query of
\* the root fails in any other way.
C8_RootQuery ==
    [][ last'.op = "status"
        => ( /\ rootKind = "missing" => ( last'.ret = "Ok" /\ last'.val = "Missing" )
             /\ rootKind = "file" => ( last'.ret = "Ok" /\ last'.val = "Invalid" )
             /\ rootKind = "denied" => ( last'.ret = "Err" /\ last'.err = "Io"
                                         /\ last'.val = "none" ) ) ]_vars

C8_Witness ==
    /\ last.op = "status" /\ rootKind = "denied"
    /\ last.ret = "Err" /\ last.err = "Io"

\* C9: once the root is known to be a directory, status() returns no error:
\* whether the marker cannot be read, the directory cannot be listed or the
\* marker cannot be created, the result is the classification Valid or Invalid.
C9_NoErrorAfterRootCheck ==
    [][ ( last'.op = "status" /\ IsDir(rootKind) )
        => ( /\ last'.ret = "Ok" /\ last'.err = "none"
             /\ last'.val \in { "Valid", "Invalid" }
             /\ ( \/ marker = MarkerDenied
                  \/ ( marker = MarkerAbsent /\ rootKind = "unlistable" ) )
                => last'.val = "Invalid" ) ]_vars

C9_Witness ==
    /\ last.op = "status" /\ last.ret = "Ok" /\ last.val = "Invalid"
    /\ rootKind = "unlistable" /\ marker = MarkerAbsent

----------------------------------------------------------------------------
(* Properties of the lookups *)

KeyOf(pkg) == PackageKey(pkg.name, pkg.version)

\* C7: over a root directory whose marker holds the supported version,
\* status() returns Valid on every call, whatever calls of status, package,
\* package_latest, packages and populate_package_cache came before, and no
\* call changes the marker file.
C7_CurrentMarkerAlwaysValid ==
    [][ ( rootKind = "dir" /\ marker = CurrentMarker )
        => ( /\ marker' = marker
             /\ last'.op = "status" => ( last'.ret = "Ok" /\ last'.val = "Valid" ) ) ]_vars

C7_Witness ==
    /\ last.op = "status" /\ last.twice /\ last.val = "Valid"
    /\ rootKind = "dir" /\ marker = CurrentMarker
    /\ \E k \in DOMAIN package_cache : package_cache[k].tag = "Loaded"

\* C2: package(name, version) called a second time on the same key returns
\* the record the first call returned, the same allocation, without parsing:
\* the record of the key has been constructed once.
C2_SecondLookupSameRecord ==
    ( last.op = "package" /\ last.twice /\ last.ret = "Ok" )
        => ( /\ last.pkg = last.before.pkg
             /\ last.pkg.rc # 0
             /\ last.nparse = 0
             /\ built[PackageKey(last.name, last.version)] = 1 )

C2_Witness ==
    /\ last.op = "package" /\ last.twice /\ last.ret = "Ok"
    /\ last.pkg = last.before.pkg
    /\ built[PackageKey(last.name, last.version)] = 1

\* every key of keys is visited once, with the record its slot holds
VisitedOnce(visited, cache) ==
    /\ Len(visited) = Cardinality(DOMAIN cache)
    /\ { KeyOf(visited[i]) : i \in DOMAIN visited } = DOMAIN cache
    /\ \A i \in DOMAIN visited : cache[KeyOf(visited[i])] = Loaded(visited[i])

\* C3 as it is stated: packages(f) visits every slot once whenever the
\* visitor f never fails.
C3_VisitsAllUnlessVisitorFails ==
    ( last.op = "packages" /\ last.failAt = 0 )
        => VisitedOnce(last.visited, package_cache)

\* C3, amended: packages(f) visits every slot once when the visitor never
\* fails and no load fails; when the visitor fails on its k-th invocation,
\* k slots have been loaded and visited, the other slots are as they were,
\* and the failure of the visitor is what the caller receives.
C3_ForEach ==
    [][ last'.op = "packages"
        => ( /\ ( last'.failAt = 0 /\ last'.err # "Package" )
                => ( /\ last'.ret = "Ok"
                     /\ last'.loads = Cardinality(DOMAIN package_cache)
                     /\ VisitedOnce(last'.visited, package_cache') )
             /\ last'.err = "Visitor"
                => ( /\ last'.ret = "Err"
                     /\ Len(last'.visited) = last'.failAt
                     /\ last'.loads = last'.failAt
                     /\ Cardinality({ KeyOf(last'.visited[i]) :
                                        i \in DOMAIN last'.visited }) = last'.failAt
                     /\ \A k \in DOMAIN package_cache :
                          \/ k \in { KeyOf(last'.visited[i]) : i \in DOMAIN last'.visited }
                          \/ package_cache'[k] = package_cache[k] )
             /\ last'.failAt > 0 => last'.ret = "Err" ) ]_vars

\* the visitor failed on its first invocation and a slot that was not reached
\* is still Unloaded
C3_Witness ==
    /\ last.op = "packages" /\ last.err = "Visitor" /\ last.failAt = 1
    /\ Len(last.visited) = 1 /\ last.loads = 1
    /\ \E k \in DOMAIN package_cache : package_cache[k].tag = "Unloaded"

\* C4: package_latest(name) returns the record of the key with the greatest
\* version, in the order of the version field, among the keys of the cache
\* named name; when no key has that name it fails with InvalidLocalPackage
\* carrying name.
C4_LatestIsGreatestVersion ==
    last.op = "package_latest"
        => LET named == { k \in DOMAIN package_cache : k.name = last.name }
           IN  /\ last.ret = "Ok"
                  => ( /\ KeyOf(last.pkg) \in named
                       /\ package_cache[KeyOf(last.pkg)] = Loaded(last.pkg)
                       /\ \A k \in named : ~StrLess(last.pkg.version, k.version) )
               /\ named = { }
                  => ( /\ last.ret = "Err" /\ last.err = "InvalidLocalPackage"
                       /\ last.errName = last.name )
               /\ named # { } => last.err # "InvalidLocalPackage"

\* "a" is asked for while "a-2-1", "a-10-1" and "b-1-1" are installed
C4_Witness ==
    /\ last.op = "package_latest" /\ last.ret = "Ok" /\ last.name = << 97 >>
    /\ Cardinality({ k \in DOMAIN package_cache : k.name = last.name }) = 2
    /\ Cardinality(DOMAIN package_cache) = 3

\* C10: package(name, version) with a key that is not in the cache fails with
\* InvalidLocalPackage carrying name, parses nothing and leaves every slot as
\* it was.
C10_AbsentKeyNotFound ==
    [][ ( /\ last'.op = "package"
          /\ PackageKey(last'.name, last'.version) \notin DOMAIN package_cache )
        => ( /\ last'.ret = "Err" /\ last'.err = "InvalidLocalPackage"
             /\ last'.errName = last'.name
             /\ last'.nparse = 0
             /\ package_cache' = package_cache
             /\ built' = built /\ nextRc' = nextRc ) ]_vars

\* the version asked for is absent while another version of the name waits
\* Unloaded in the cache
C10_Witness ==
    /\ last.op = "package" /\ last.err = "InvalidLocalPackage"
    /\ PackageKey(last.name, last.version) \notin DOMAIN package_cache
    /\ \E k \in DOMAIN package_cache :
         k.name = last.name /\ package_cache[k].tag = "Unloaded"

----------------------------------------------------------------------------
(* Properties of the population and of the slots *)

Dirs(es) == { e \in es : e.dir }
Splits(e) == split_package_dirname(e.name).some
DirKey(e) ==
    PackageKey(split_package_dirname(e.name).name, split_package_dirname(e.name).version)
\* the keys of the package directories among the entries es
DirKeys(es) == { DirKey(e) : e \in { x \in Dirs(es) : Splits(x) } }

Lookups == { "package", "package_latest" }
Queries == { "status", "package", "package_latest", "packages" }

\* C11: populate_package_cache is all or nothing: a call that fails leaves in
\* the cache no slot that it inserted.
C11_FailedPopulateInsertsNothing ==
    [][ ( last'.op = "populate_package_cache" /\ last'.ret = "Err" )
        => package_cache' = package_cache ]_vars

\* C12: once populated, the keys of the cache and count() do not change:
\* not by status, package, package_latest or packages, and not by package
\* directories appearing in or vanishing from the directory.
C12_KeysFixedAfterPopulate ==
    [][ /\ last'.op # "populate_package_cache"
           => ( /\ DOMAIN package_cache' = DOMAIN package_cache
                /\ Cardinality(DOMAIN package_cache') = Cardinality(DOMAIN package_cache) )
        /\ entries' # entries => package_cache' = package_cache ]_vars

\* a query returned after the directory had lost a package of the cache and
\* gained one the cache does not have
C12_Witness ==
    /\ last.op \in Queries /\ last.ret = "Ok"
    /\ DOMAIN package_cache # { }
    /\ DOMAIN package_cache \ DirKeys(entries) # { }
    /\ DirKeys(entries) \ DOMAIN package_cache # { }

\* C13: a slot is Unloaded when populate_package_cache inserts it, changes
\* only from Unloaded to Loaded, and once Loaded keeps the record it holds,
\* in every step that does not end the process.
C13_SlotsMonotonic ==
    [][ ~crashed'
        => ( /\ \A k \in DOMAIN package_cache :
                  /\ k \in DOMAIN package_cache'
                  /\ package_cache[k].tag = "Loaded"
                       => package_cache'[k] = package_cache[k]
                  /\ package_cache[k].tag = "Unloaded"
                       => \/ package_cache'[k] = package_cache[k]
                          \/ /\ package_cache'[k].tag = "Loaded"
                             /\ KeyOf(package_cache'[k].pkg) = k
             /\ \A k \in DOMAIN package_cache' \ DOMAIN package_cache :
                  package_cache'[k].tag = "Unloaded" ) ]_vars

\* packages ran over slots that were all Loaded already and parsed nothing
C13_Witness ==
    /\ last.op = "packages" /\ last.ret = "Ok" /\ last.nparse = 0
    /\ Len(last.visited) >= 2
    /\ \A k \in DOMAIN package_cache : package_cache[k].tag = "Loaded"

\* C14: package_count is the number of slots of the cache in every state.
C14_CountMirrorsCache ==
    package_count = Cardinality(DOMAIN package_cache)

C16_DuplicateKeyPanics ==
    [][ last'.op = "populate_package_cache"
        => LET dup == DirKeys(entries) \cap DOMAIN package_cache
               junk == { e \in Dirs(entries) : ~Splits(e) }
           IN  /\ crashed' = ( last'.ret = "Panic" )
               /\ last'.ret = "Panic" => dup # { }
               /\ ( rootKind = "dir" /\ dup # { } ) => last'.ret # "Ok"
               /\ ( rootKind = "dir" /\ dup # { } /\ junk = { } ) => last'.ret = "Panic"
               /\ ( rootKind = "dir" /\ last'.ret = "Err" )
                    => ( /\ last'.err = "InvalidLocalPackage"
                         /\ last'.errName \in { e.name : e \in junk } ) ]_vars

\* the second run over a directory of two packages
C16_Witness ==
    /\ crashed /\ last.op = "populate_package_cache" /\ last.ret = "Panic"
    /\ Cardinality(DOMAIN package_cache) = 2
    /\ DirKeys(entries) = DOMAIN package_cache

\* the record p is the one the slot of its key holds, the only one that was
\* ever constructed for the key
Shared(p) ==
    /\ p.rc # 0
    /\ KeyOf(p) \in DOMAIN package_cache
    /\ package_cache[KeyOf(p)] = Loaded(p)
    /\ built[KeyOf(p)] = 1

\* C17: no record is constructed twice for a key, and package, package_latest
\* and packages all hand out the record the slot of the key holds, so that
\* every call that yields the package of a key yields the same allocation.
C17_OneRecordPerKey ==
    /\ \A k \in PossibleKeys : built[k] <= 1
    /\ ( last.op \in Lookups /\ last.ret = "Ok" ) => Shared(last.pkg)
    /\ ( last.op = "package" /\ last.ret = "Ok" )
         => KeyOf(last.pkg) = PackageKey(last.name, last.version)
    /\ last.op = "packages" => \A i \in DOMAIN last.visited : Shared(last.visited[i])

\* package_latest returned, without parsing, the record that was there
C17_Witness ==
    /\ last.op = "package_latest" /\ last.ret = "Ok" /\ last.nparse = 0
    /\ ~last.twice
    /\ Shared(last.pkg)

VisitedKeys(c) == { KeyOf(c.visited[i]) : i \in DOMAIN c.visited }

\* C19: when from_local fails in load, the call returns the error and the
\* slot stays as it was, Unloaded with its path, name and version, so that
\* the next access of the key parses again; in packages the failure ends the
\* loop before the visitor is called for that slot, and the slots loaded
\* before it stay Loaded.
C19_FailedLoadLeavesSlot ==
    [][ /\ ( last'.op \in Lookups /\ last'.err = "Package" )
           => ( /\ last'.ret = "Err" /\ last'.nparse = 1
                /\ package_cache' = package_cache
                /\ built' = built )
        /\ ( /\ last'.op = "package"
             /\ PackageKey(last'.name, last'.version) \in DOMAIN package_cache
             /\ package_cache[PackageKey(last'.name, last'.version)].tag = "Unloaded" )
           => last'.nparse = 1
        /\ ( last'.op = "packages" /\ last'.err = "Package" )
           => ( /\ last'.ret = "Err"
                /\ last'.loads = Len(last'.visited) + 1
                /\ \A i \in DOMAIN last'.visited :
                     package_cache'[KeyOf(last'.visited[i])] = Loaded(last'.visited[i])
                /\ \A k \in DOMAIN package_cache \ VisitedKeys(last') :
                     package_cache'[k] = package_cache[k]
                /\ \E k \in DOMAIN package_cache \ VisitedKeys(last') :
                     package_cache'[k].tag = "Unloaded" ) ]_vars

\* packages stopped at a slot that failed to load after it had visited one
C19_Witness ==
    /\ last.op = "packages" /\ last.err = "Package"
    /\ Len(last.visited) >= 1 /\ last.nparse >= 2
    /\ \E k \in DOMAIN package_cache : package_cache[k].tag = "Unloaded"

\* C20: package and package_latest change no slot but the one whose record
\* they return, other versions of the name included, and status changes no
\* slot.
C20_OnlyReturnedSlotChanges ==
    [][ /\ last'.op \in Lookups
           => ( /\ DOMAIN package_cache' = DOMAIN package_cache
                /\ \A k \in DOMAIN package_cache :
                     package_cache'[k] # package_cache[k]
                       => ( last'.ret = "Ok" /\ k = KeyOf(last'.pkg) ) )
        /\ last'.op = "status"
           => ( package_cache' = package_cache /\ built' = built ) ]_vars

\* package_latest loaded one version while another version of the name
\* stays Unloaded
C20_Witness ==
    /\ last.op = "package_latest" /\ last.ret = "Ok" /\ last.nparse = 1
    /\ \E k \in DOMAIN package_cache :
         /\ k.name = last.name /\ k # KeyOf(last.pkg)
         /\ package_cache[k].tag = "Unloaded"

====
